---- MODULE Spec2Model ----
(***************************************************************************)
(* A model of s3_fs: the path parser (bucket.rs), the error classifier     *)
(* (errors.rs), the paginated listing loop (services.rs), the directory    *)
(* tree built from a listing (file.rs), the eager and lazy S3Path (s3.rs)  *)
(* and create_dir_all (fs.rs).                                             *)
(*                                                                         *)
(* A Rust String is a sequence of one-character strings; an Option<T> is   *)
(* the empty sequence (None) or a one-element sequence (Some(x)); a call   *)
(* that panics yields Panic, a call that returns v yields Ret(v).          *)
(***************************************************************************)
EXTENDS Integers, Sequences, FiniteSets, TLC

VARIABLES
    path_in,        \* bucket.rs: the pieces the path given to from_path is made of
    path,           \* bucket.rs: the path given to from_path
    bucket_config,  \* bucket.rs: what from_path returned
    error_in,       \* errors.rs: the arguments of process_error (e, s3_path_error, op)
    error_out,      \* errors.rs: what process_error returned
    s3_pages,       \* the backend: the pages of the listing it holds
    service,        \* services.rs: the S3Service (its bucket)
    list_object_input, \* services.rs: list_objects' request (its continuation_token)
    objects,        \* services.rs: list_objects' accumulated contents
    common_prefixes, \* services.rs: list_objects' accumulated common prefixes
    prefix,         \* services.rs: list_objects' accumulated prefix
    requests,       \* the requests list_objects has sent, oldest first
    list_pc,        \* services.rs: where list_objects is: "loop", "returned", "panicked"
    list_out,       \* services.rs: what list_objects returned (None until it returns)
    listing,        \* file.rs: the arguments of File::new (name, objects, prefix, common_prefixes)
    file,           \* file.rs: what File::new returned
    ctor,           \* s3.rs: the constructor called and its arguments
    s3path,         \* s3.rs: the S3Path (file, eager_loading); its s3_service is service
    path_pc,        \* s3.rs: where the constructor or the call on the S3Path is
    probe,          \* s3.rs: the outcome of the constructor's existence probe, None without one
    heads,          \* the number of head requests sent to the backend
    calls,          \* the number of calls made on the S3Path
    last_call,      \* s3.rs: the last call on the S3Path, its existence check, its result
    dir_in,         \* fs.rs: the pieces the path given to create_dir_all is made of
    store,          \* the backend: the keys that exist
    puts,           \* the keys of the put requests sent, oldest first
    fs_out          \* fs.rs: what create_dir_all returned

bucket_vars == <<path_in, path, bucket_config>>
error_vars == <<error_in, error_out>>
list_vars == <<s3_pages, service, list_object_input, objects, common_prefixes, prefix,
               requests, list_pc, list_out>>
file_vars == <<listing, file>>
path_vars == <<ctor, s3path, path_pc, probe, heads, calls, last_call>>
fs_vars == <<dir_in, store, puts, fs_out>>
vars == <<bucket_vars, error_vars, list_vars, file_vars, path_vars, fs_vars>>

----------------------------------------------------------------------------
(* Option, panics *)

None == <<>>
Some(x) == <<x>>
Panic == [aborted |-> TRUE]
Ret(v) == [aborted |-> FALSE, value |-> v]
\* the call has not been made yet
NotCalled == [aborted |-> FALSE, pending |-> TRUE]
\* no call is to be made: the specification does not use this part of the state
Unused == [aborted |-> FALSE, pending |-> FALSE]

----------------------------------------------------------------------------
(* Strings *)

EmptyStr == <<>>
Slash == "/"
Dot == "."
S3Scheme == <<"s", "3", ":", "/", "/">>
AccessPointSlash == <<":", "a", "c", "c", "e", "s", "s", "p", "o", "i", "n", "t", "/">>
AccessPointColon == <<":", "a", "c", "c", "e", "s", "s", "p", "o", "i", "n", "t", ":">>

\* pat occurs in s at position i
MatchAt(s, pat, i) ==
    /\ i + Len(pat) - 1 <= Len(s)
    /\ \A k \in 1..Len(pat) : s[i + k - 1] = pat[k]

\* str::contains(pat)
ContainsStr(s, pat) == \E i \in 1..(Len(s) + 1) : MatchAt(s, pat, i)

\* str::contains(char)
ContainsChar(s, c) == \E i \in 1..Len(s) : s[i] = c

\* str::ends_with
EndsWith(s, suf) == Len(suf) <= Len(s) /\ MatchAt(s, suf, Len(s) - Len(suf) + 1)

RECURSIVE ReplaceFrom(_, _, _, _)
ReplaceFrom(s, pat, rep, i) ==
    IF i > Len(s) THEN EmptyStr
    ELSE IF MatchAt(s, pat, i) THEN rep \o ReplaceFrom(s, pat, rep, i + Len(pat))
    ELSE <<s[i]>> \o ReplaceFrom(s, pat, rep, i + 1)

\* str::replace: every non-overlapping match of pat, scanning left to right
Replace(s, pat, rep) == ReplaceFrom(s, pat, rep, 1)

RECURSIVE SplitFrom(_, _, _, _)
SplitFrom(s, c, i, cur) ==
    IF i > Len(s) THEN <<cur>>
    ELSE IF s[i] = c THEN <<cur>> \o SplitFrom(s, c, i + 1, EmptyStr)
    ELSE SplitFrom(s, c, i + 1, Append(cur, s[i]))

\* str::split(char): the pieces between the separators, empty pieces included
Split(s, c) == SplitFrom(s, c, 1, EmptyStr)

NotEmpty(n) == n # EmptyStr

RECURSIVE Join(_, _)
\* [&str]::join(sep)
Join(parts, sep) ==
    IF parts = <<>> THEN EmptyStr
    ELSE IF Len(parts) = 1 THEN parts[1]
    ELSE parts[1] \o sep \o Join(Tail(parts), sep)

----------------------------------------------------------------------------
(* The parts of the state a specification does not use stay as they are here *)

BucketIdle ==
    /\ path_in = [scheme |-> EmptyStr, segs |-> <<>>]
    /\ path = EmptyStr
    /\ bucket_config = Unused

ErrorIdle ==
    /\ error_in = [e |-> None, s3_path_error |-> None, op |-> "HeadObject"]
    /\ error_out = Unused

ListIdle ==
    /\ s3_pages = <<>>
    /\ service = [bucket |-> [name |-> EmptyStr, key |-> EmptyStr, full_path |-> None]]
    /\ list_object_input = [bucket |-> EmptyStr, continuation_token |-> None, prefix |-> None]
    /\ objects = <<>>
    /\ common_prefixes = <<>>
    /\ prefix = EmptyStr
    /\ requests = <<>>
    /\ list_pc = "idle"
    /\ list_out = None

FileIdle ==
    /\ listing = [name |-> EmptyStr, objects |-> <<>>, prefix |-> EmptyStr,
                  common_prefixes |-> <<>>]
    /\ file = Unused

PathIdle ==
    /\ ctor = [fn |-> "none", path |-> EmptyStr,
               bucket |-> [name |-> EmptyStr, key |-> EmptyStr, full_path |-> None],
               eager_loading |-> FALSE]
    /\ s3path = [path |-> EmptyStr, file |-> None, eager_loading |-> FALSE]
    /\ path_pc = "idle"
    /\ probe = None
    /\ heads = 0
    /\ calls = 0
    /\ last_call = [op |-> "none", check |-> None, result |-> Unused]

FsIdle ==
    /\ dir_in = [container |-> EmptyStr, dirs |-> <<>>]
    /\ store = {}
    /\ puts = <<>>
    /\ fs_out = Unused

----------------------------------------------------------------------------
(* bucket.rs *)

BucketConfig(name, key, full_path) == [name |-> name, key |-> key, full_path |-> full_path]

\* a split_path whose Greater arm repeats the Equal arm
split_path_first_segment_only(p) ==
    LET normal == Replace(Replace(p, S3Scheme, EmptyStr), AccessPointSlash, AccessPointColon)
        parts == SelectSeq(Split(normal, Slash), NotEmpty)
    IN  IF parts = <<>> THEN Panic
        ELSE IF ContainsChar(parts[1], Slash) THEN Panic
        ELSE IF Len(parts) < 2 THEN Ret(<<parts[1], EmptyStr, None>>)
        ELSE Ret(<<parts[1], parts[2] \o <<Slash>>, Some(parts[2] \o <<Slash>>)>>)

\* a split_path that leaves ":accesspoint/" as it is
split_path_no_access_point(p) ==
    LET normal == Replace(p, S3Scheme, EmptyStr)
        parts == SelectSeq(Split(normal, Slash), NotEmpty)
    IN  IF parts = <<>> THEN Panic
        ELSE IF ContainsChar(parts[1], Slash) THEN Panic
        ELSE IF Len(parts) < 2 THEN Ret(<<parts[1], EmptyStr, None>>)
        ELSE IF Len(parts) = 2
             THEN Ret(<<parts[1], parts[2] \o <<Slash>>, Some(parts[2] \o <<Slash>>)>>)
        ELSE Ret(<<parts[1], parts[2] \o <<Slash>>,
                   Some(Join(SubSeq(parts, 2, Len(parts)), <<Slash>>) \o <<Slash>>)>>)

split_path(p) ==
    LET normal == Replace(Replace(p, S3Scheme, EmptyStr), AccessPointSlash, AccessPointColon)
        parts == SelectSeq(Split(normal, Slash), NotEmpty)
    IN  IF parts = <<>> THEN Panic                           \* parts[0] out of bounds
        ELSE IF ContainsChar(parts[1], Slash) THEN Panic     \* "not a valid bucket name"
        ELSE IF Len(parts) < 2 THEN Ret(<<parts[1], EmptyStr, None>>)
        ELSE IF Len(parts) = 2
             THEN Ret(<<parts[1], parts[2] \o <<Slash>>, Some(parts[2] \o <<Slash>>)>>)
        ELSE Ret(<<parts[1], parts[2] \o <<Slash>>,
                   Some(Join(SubSeq(parts, 2, Len(parts)), <<Slash>>) \o <<Slash>>)>>)

from_path(p) ==
    LET t == split_path(p)
    IN  IF t.aborted THEN Panic
        ELSE Ret(BucketConfig(t.value[1], t.value[2], t.value[3]))

----------------------------------------------------------------------------
(* errors.rs *)

S3PathError == {"Unknown", "ExpiredToken", "ObjectDoesNotExist", "ObjectAlreadyExists",
                "NotADirectory"}

S3PathOp == {"HeadObject", "GetObject", "PutObject", "ListObjects"}

\* RusotoError<E>: only Unknown(BufferedHttpResponse) carries a status
RusotoErrorNoStatus == {"Service", "HttpDispatch", "Credentials", "Validation",
                        "ParseError", "Blocking"}

\* http::StatusCode is a number in 100..=999
StatusCodes == 100..999

RusotoError ==
    [variant : RusotoErrorNoStatus, status : {None}]
        \cup [variant : {"Unknown"}, status : {Some(n) : n \in StatusCodes}]

Digits == <<"0", "1", "2", "3", "4", "5", "6", "7", "8", "9">>

\* StatusCode::as_str: the three decimal digits
as_str(n) == <<Digits[(n \div 100) + 1], Digits[((n \div 10) % 10) + 1], Digits[(n % 10) + 1]>>

\* a process_error that answers ObjectDoesNotExist to 404 and 301 whatever the operation
process_error_any_op(e, s3_path_error, op) ==
    IF e = None
    THEN IF s3_path_error = None THEN Panic ELSE Ret(s3_path_error[1])
    ELSE LET rusoto_error == e[1]
         IN  IF rusoto_error.variant = "Service" THEN Ret("Unknown")
             ELSE IF rusoto_error.variant = "Unknown"
                  THEN LET status == as_str(rusoto_error.status[1])
                       IN  IF status = <<"4", "0", "0">> THEN Ret("ExpiredToken")
                           ELSE IF status = <<"4", "0", "4">> \/ status = <<"3", "0", "1">>
                                THEN Ret("ObjectDoesNotExist")
                           ELSE Ret("Unknown")
             ELSE Ret("Unknown")

process_error(e, s3_path_error, op) ==
    IF e = None
    THEN IF s3_path_error = None THEN Panic        \* s3_path_error.unwrap()
         ELSE Ret(s3_path_error[1])
    ELSE LET rusoto_error == e[1]
         IN  IF rusoto_error.variant = "Service" THEN Ret("Unknown")
             ELSE IF rusoto_error.variant = "Unknown"
                  THEN LET status == as_str(rusoto_error.status[1])
                       IN  IF status = <<"4", "0", "0">> THEN Ret("ExpiredToken")
                           ELSE IF status = <<"4", "0", "4">> \/ status = <<"3", "0", "1">>
                                THEN IF op = "HeadObject" THEN Ret("ObjectDoesNotExist")
                                     ELSE Ret("Unknown")
                           ELSE Ret("Unknown")
             ELSE Ret("Unknown")

ErrorInit ==
    /\ error_in \in [e : {None} \cup {Some(x) : x \in RusotoError},
                     s3_path_error : {None} \cup {Some(x) : x \in S3PathError},
                     op : S3PathOp]
    /\ error_out = NotCalled
    /\ BucketIdle
    /\ ListIdle
    /\ FileIdle
    /\ PathIdle
    /\ FsIdle

ProcessError ==
    /\ error_out = NotCalled
    /\ error_out' = process_error(error_in.e, error_in.s3_path_error, error_in.op)
    /\ UNCHANGED <<error_in, bucket_vars, list_vars, file_vars, path_vars, fs_vars>>

ErrorNext == ProcessError

SpecError == ErrorInit /\ [][ErrorNext]_vars

----------------------------------------------------------------------------
(* Claims about process_error *)

ErrorCalled == error_out \notin {NotCalled, Unused}

\* C7: process_error returns an S3PathError, without aborting, for every
\* combination of backend error, local error and operation, the one with neither
\* error included.
C7_ProcessErrorTotal ==
    ErrorCalled => (~error_out.aborted /\ error_out.value \in S3PathError)

BackendStatus == error_in.e[1].status

\* C8: given a backend error, process_error returns ExpiredToken for status 400;
\* ObjectDoesNotExist for 404 and 301 under HeadObject and Unknown for them under
\* the other operations; Unknown for any other status and for no status.
C8_Classification ==
    (ErrorCalled /\ error_in.e # None) =>
        /\ ~error_out.aborted
        /\ error_out.value =
              IF BackendStatus = Some(400) THEN "ExpiredToken"
              ELSE IF BackendStatus \in {Some(404), Some(301)} /\ error_in.op = "HeadObject"
                   THEN "ObjectDoesNotExist"
              ELSE "Unknown"

C8_Witness ==
    /\ error_out = Ret("Unknown")
    /\ error_in.e = Some([variant |-> "Unknown", status |-> Some(404)])
    /\ error_in.op = "ListObjects"

----------------------------------------------------------------------------
(* The paths from_path is applied to: a scheme, then segments joined by "/" *)

MaxSegments == 3

Schemes == {EmptyStr, S3Scheme, <<Slash>>}

Seg_b == <<"b">>
Seg_k == <<"k">>
Seg_accesspoint == <<"a", "c", "c", "e", "s", "s", "p", "o", "i", "n", "t">>
Seg_b_accesspoint == <<"b", ":", "a", "c", "c", "e", "s", "s", "p", "o", "i", "n", "t">>

Segments == {EmptyStr, Seg_b, Seg_k, Seg_accesspoint, Seg_b_accesspoint}

SegmentSeqs == UNION {[1..n -> Segments] : n \in 1..(MaxSegments + 1)}

MakePath(scheme, segs) == scheme \o Join(segs, <<Slash>>)

BucketInit ==
    /\ path_in \in [scheme : Schemes, segs : SegmentSeqs]
    /\ path = MakePath(path_in.scheme, path_in.segs)
    /\ bucket_config = NotCalled
    /\ ErrorIdle
    /\ ListIdle
    /\ FileIdle
    /\ PathIdle
    /\ FsIdle

FromPath ==
    /\ bucket_config = NotCalled
    /\ bucket_config' = from_path(path)
    /\ UNCHANGED <<path_in, path, error_vars, list_vars, file_vars, path_vars, fs_vars>>

BucketNext == FromPath

SpecBucket == BucketInit /\ [][BucketNext]_vars

----------------------------------------------------------------------------
(* Claims about from_path *)

Called == bucket_config \notin {NotCalled, Unused}

RECURSIVE SlashTerminated(_)
\* s1 + "/" + ... + sn + "/"
SlashTerminated(segs) ==
    IF segs = <<>> THEN EmptyStr
    ELSE segs[1] \o <<"/">> \o SlashTerminated(Tail(segs))

AccessPointSuffix == <<":", "a", "c", "c", "e", "s", "s", "p", "o", "i", "n", "t">>

\* the input is [s3:// or /] C / s1 / ... / sn with C and every s_i non-empty
PlainInput == \A i \in 1..Len(path_in.segs) : path_in.segs[i] # EmptyStr

\* neither C nor any segment before the last ends with ":accesspoint"
NoAccessPointInside ==
    \A i \in 1..(Len(path_in.segs) - 1) : ~EndsWith(path_in.segs[i], AccessPointSuffix)

\* what C9 says from_path returns for C, s1..sn
SplitAsClaimed ==
    LET segs == path_in.segs
        n == Len(segs) - 1
    IN  /\ ~bucket_config.aborted
        /\ bucket_config.value.name = segs[1]
        /\ n = 0 => /\ bucket_config.value.key = EmptyStr
                    /\ bucket_config.value.full_path = None
        /\ n >= 1 => bucket_config.value.key = segs[2] \o <<"/">>
        /\ n = 1 => bucket_config.value.full_path = Some(segs[2] \o <<"/">>)
        /\ n >= 2 => bucket_config.value.full_path = Some(SlashTerminated(Tail(segs)))

\* C9 as stated: for every input made of an optional "s3://" or leading "/", a
\* container name C and n >= 0 non-empty segments, from_path returns name = C,
\* key = s1/ (empty when n = 0) and full_path = s1/.../sn/ (unset when n = 0).
C9_FromPathSplit == (Called /\ PlainInput) => SplitAsClaimed

\* C9 amended: the same, for the inputs in which neither C nor any segment before
\* the last ends with ":accesspoint" (the path holds no ":accesspoint/").
C9_FromPathSplitNoAccessPoint ==
    (Called /\ PlainInput /\ NoAccessPointInside) => SplitAsClaimed

C9_Witness ==
    /\ Called
    /\ path_in = [scheme |-> S3Scheme, segs |-> <<Seg_b, Seg_k, Seg_b, Seg_k>>]
    /\ bucket_config.value = BucketConfig(Seg_b, <<"k", "/">>,
                                          Some(<<"k", "/", "b", "/", "k", "/">>))

RECURSIVE JoinAccessPoint(_)
\* the segments joined as the path is written with ":accesspoint:" for
\* ":accesspoint/": a ":" after a segment that ends with ":accesspoint", a "/"
\* after any other
JoinAccessPoint(segs) ==
    IF segs = <<>> THEN EmptyStr
    ELSE IF Len(segs) = 1 THEN segs[1]
    ELSE segs[1] \o (IF EndsWith(segs[1], AccessPointSuffix) THEN <<":">> ELSE <<"/">>)
                 \o JoinAccessPoint(Tail(segs))

WrittenWithColon == path_in.scheme \o JoinAccessPoint(path_in.segs)

HasAccessPoint == ContainsStr(path, AccessPointSuffix \o <<"/">>)

\* the access-point name is itself "accesspoint", followed by a "/"
AccessPointNamedAccessPoint ==
    ContainsStr(path, AccessPointSuffix \o <<"/">> \o Seg_accesspoint \o <<"/">>)

IsPrefix(p, s) == Len(p) <= Len(s) /\ SubSeq(s, 1, Len(p)) = p

\* the input is C:accesspoint / name / ...: the name goes to the container name
AccessPointNameInContainer ==
    LET segs == path_in.segs
    IN  (PlainInput /\ Len(segs) >= 2 /\ EndsWith(segs[1], AccessPointSuffix)) =>
            /\ ~bucket_config.aborted
            /\ IsPrefix(segs[1] \o <<":">> \o segs[2], bucket_config.value.name)
            /\ Len(segs) = 2 => /\ bucket_config.value.key = EmptyStr
                                /\ bucket_config.value.full_path = None
            /\ (Len(segs) >= 3 /\ ~EndsWith(segs[2], AccessPointSuffix)) =>
                    /\ bucket_config.value.name = segs[1] \o <<":">> \o segs[2]
                    /\ IsPrefix(segs[3], bucket_config.value.key)

\* C10 as stated: from_path of a path containing "C:accesspoint/name" returns the
\* BucketConfig that from_path returns for the path written with ":accesspoint:",
\* and the access-point name is part of the container name, never the key.
C10_AccessPoint ==
    (Called /\ HasAccessPoint) =>
        /\ bucket_config = from_path(WrittenWithColon)
        /\ AccessPointNameInContainer

\* C10 amended: the same, for every path in which no access-point name is the word
\* "accesspoint" followed by "/" (no ":accesspoint/accesspoint/" in the path).
C10_AccessPointNotNamedAccessPoint ==
    (Called /\ HasAccessPoint /\ ~AccessPointNamedAccessPoint) =>
        /\ bucket_config = from_path(WrittenWithColon)
        /\ AccessPointNameInContainer

C10_Witness ==
    /\ Called
    /\ path_in = [scheme |-> S3Scheme, segs |-> <<Seg_b_accesspoint, Seg_k, Seg_b>>]
    /\ bucket_config.value.name = Seg_b_accesspoint \o <<":", "k">>
    /\ bucket_config.value.key = <<"b", "/">>
    /\ bucket_config = from_path(WrittenWithColon)

----------------------------------------------------------------------------
(* rusoto_s3::Object and CommonPrefix, and the listing the backend holds *)

Object(key, size, last_modified) == [key |-> key, size |-> size, last_modified |-> last_modified]
CommonPrefix(p) == [prefix |-> p]

Key_file1 == <<"r", "o", "o", "t", "/", "d", "i", "r", "/", "f", "i", "l", "e", "1", ".", "t", "x", "t">>
Key_file2 == <<"r", "o", "o", "t", "/", "d", "i", "r", "/", "s", "u", "b", "/", "f", "i", "l", "e", "2", ".", "p", "n", "g">>
Key_dir == <<"d", "i", "r">>
Key_sub3 == <<"s", "u", "b", "/", "s", "u", "b", "/", "s", "u", "b">>
Prefix_sub == <<"r", "o", "o", "t", "/", "d", "i", "r", "/", "s", "u", "b", "/">>
Date_1 == <<"d", "1">>
Date_2 == <<"d", "2">>

Obj_file1 == Object(Some(Key_file1), Some(11), Some(Date_1))
Obj_file2 == Object(Some(Key_file2), Some(22), Some(Date_2))
Obj_dir == Object(Some(Key_dir), None, None)
Obj_sub3 == Object(Some(Key_sub3), Some(33), None)
Obj_nokey == Object(None, None, None)

----------------------------------------------------------------------------
(* services.rs: list_objects *)

MaxPages == 3
MaxRequests == 4

\* a page of the listing the backend holds
Page(contents, cps) == [contents |-> contents, common_prefixes |-> cps]

PagePool == {Page(Some(<<Obj_file1>>), None),
             Page(Some(<<Obj_file2>>), Some(<<CommonPrefix(Some(Prefix_sub))>>)),
             Page(None, Some(<<CommonPrefix(Some(Prefix_sub))>>))}

\* ListObjectsV2Request, the fields list_objects sets
ListObjectsV2Request(bucket, token, p) ==
    [bucket |-> bucket, continuation_token |-> token, prefix |-> p]

\* The backend's answer to a request: the page the continuation token names (the
\* first without one), the token of the page after it when there is one, and the
\* request's own token and prefix echoed.  The token of page k is k.
list_objects_v2(pages, request) ==
    LET k == IF request.continuation_token = None THEN 1 ELSE request.continuation_token[1]
    IN  [contents |-> pages[k].contents,
         common_prefixes |-> pages[k].common_prefixes,
         prefix |-> request.prefix,
         continuation_token |-> request.continuation_token,
         next_continuation_token |-> IF k < Len(pages) THEN Some(k + 1) ELSE None]

\* the errors a list request fails with
ListFailures == {[variant |-> "Unknown", status |-> Some(404)],
                 [variant |-> "HttpDispatch", status |-> None]}

ListPaths == {S3Scheme \o Seg_b, S3Scheme \o Seg_b \o <<"/">> \o Key_dir}

\* list_objects up to its loop: the accumulators empty, the request without a token
ListInit ==
    /\ s3_pages \in UNION {[1..n -> PagePool] : n \in 1..MaxPages}
    /\ service \in {[bucket |-> from_path(p).value] : p \in ListPaths}
    /\ list_object_input =
           ListObjectsV2Request(service.bucket.name, None, Some(service.bucket.key))
    /\ objects = <<>>
    /\ common_prefixes = <<>>
    /\ prefix = EmptyStr
    /\ requests = <<>>
    /\ list_pc = "loop"
    /\ list_out = None
    /\ BucketIdle
    /\ ErrorIdle
    /\ FileIdle
    /\ PathIdle
    /\ FsIdle

Sent(error) == [continuation_token |-> list_object_input.continuation_token, error |-> error]

\* one turn of the loop whose request the backend answers: the Ok arm
ListPage ==
    /\ list_pc = "loop"
    /\ Len(requests) < MaxRequests
    /\ LET list_objects_output == list_objects_v2(s3_pages, list_object_input)
           contents == IF list_objects_output.contents = None THEN <<>>
                       ELSE list_objects_output.contents[1]
           prefixes == IF list_objects_output.common_prefixes = None THEN <<>>
                       ELSE list_objects_output.common_prefixes[1]
       IN  /\ requests' = Append(requests, Sent(None))
           /\ IF list_objects_output.prefix = None \/ list_objects_output.prefix = Some(EmptyStr)
              THEN \* prefix.unwrap() of None, or split_at(len - 1) of ""
                   /\ list_pc' = "panicked"
                   /\ UNCHANGED <<objects, common_prefixes, prefix, list_object_input, list_out>>
              ELSE LET bucket_prefix == list_objects_output.prefix[1]
                   IN  /\ objects' = objects \o contents
                       /\ prefix' = prefix \o SubSeq(bucket_prefix, 1, Len(bucket_prefix) - 1)
                       /\ common_prefixes' = common_prefixes \o prefixes
                       /\ IF list_objects_output.next_continuation_token = None
                          THEN /\ list_pc' = "returned"
                               /\ list_out' = Some([is_ok |-> TRUE,
                                                    objects |-> objects',
                                                    common_prefixes |-> common_prefixes',
                                                    prefix |-> prefix'])
                               /\ UNCHANGED list_object_input
                          ELSE /\ list_object_input' =
                                      [list_object_input EXCEPT !.continuation_token =
                                          list_objects_output.continuation_token]
                               /\ UNCHANGED <<list_pc, list_out>>
    /\ UNCHANGED <<s3_pages, service, bucket_vars, error_vars, file_vars, path_vars, fs_vars>>

\* one turn of the loop whose request fails: the Err(_) arm, which does nothing
ListPageFails ==
    /\ list_pc = "loop"
    /\ Len(requests) < MaxRequests
    /\ \E e \in ListFailures : requests' = Append(requests, Sent(Some(e)))
    /\ UNCHANGED <<s3_pages, service, list_object_input, objects, common_prefixes, prefix,
                   list_pc, list_out, bucket_vars, error_vars, file_vars, path_vars,
                   fs_vars>>

ListNext == ListPage \/ ListPageFails

SpecList == ListInit /\ [][ListNext]_vars

----------------------------------------------------------------------------
(* Claims about list_objects *)

RECURSIVE AllContents(_)
AllContents(pages) ==
    IF pages = <<>> THEN <<>>
    ELSE (IF pages[1].contents = None THEN <<>> ELSE pages[1].contents[1])
             \o AllContents(Tail(pages))

RECURSIVE AllCommonPrefixes(_)
AllCommonPrefixes(pages) ==
    IF pages = <<>> THEN <<>>
    ELSE (IF pages[1].common_prefixes = None THEN <<>> ELSE pages[1].common_prefixes[1])
             \o AllCommonPrefixes(Tail(pages))

NoRequestFailed == \A i \in 1..Len(requests) : requests[i].error = None

\* the token the i-th request carries when every page is asked for once, in order
TokenOfRequest(i) == IF i = 1 THEN None ELSE Some(i)

\* C5: with N >= 1 pages and no failing request, list_objects asks for each page
\* once, each request carrying the token the page before returned, stops after
\* the page without a next token, and returns all pages' entries and common
\* prefixes in page order.
C5_Pagination ==
    (list_pc \in {"loop", "returned"} /\ NoRequestFailed /\ service.bucket.key # EmptyStr) =>
        /\ Len(requests) <= Len(s3_pages)
        /\ \A i \in 1..Len(requests) : requests[i].continuation_token = TokenOfRequest(i)
        /\ Len(requests) = Len(s3_pages) => list_pc = "returned"
        /\ list_pc = "returned" =>
              /\ Len(requests) = Len(s3_pages)
              /\ list_out[1].is_ok
              /\ list_out[1].objects = AllContents(s3_pages)
              /\ list_out[1].common_prefixes = AllCommonPrefixes(s3_pages)

\* C6: when a list request fails, list_objects sends no further request, and what
\* it returns is the error process_error gives for ListObjects.
C6_StopsAtFirstFailure ==
    \A i \in 1..Len(requests) :
        requests[i].error # None =>
            /\ i = Len(requests)
            /\ list_pc = "returned" =>
                  /\ ~list_out[1].is_ok
                  /\ list_out[1].error =
                        process_error(requests[i].error, None, "ListObjects").value

----------------------------------------------------------------------------
(* file.rs *)

\* the characters of the model in byte order: str's Ord compares bytes
Bytes == <<".", "/", "0", "1", "2", "3", "4", "5", "6", "7", "8", "9", ":",
           "a", "b", "c", "d", "e", "f", "g", "h", "i", "j", "k", "l", "m",
           "n", "o", "p", "q", "r", "s", "t", "u", "v", "w", "x", "y", "z">>

ByteOf(c) == CHOOSE i \in 1..Len(Bytes) : Bytes[i] = c

RECURSIVE StrLess(_, _)
\* a < b for str: byte by byte, a proper prefix is less
StrLess(a, b) ==
    IF b = <<>> THEN FALSE
    ELSE IF a = <<>> THEN TRUE
    ELSE IF a[1] = b[1] THEN StrLess(Tail(a), Tail(b))
    ELSE ByteOf(a[1]) < ByteOf(b[1])

RECURSIVE VecLess(_, _)
\* a < b for Vec<&str>: element by element, a proper prefix is less
VecLess(a, b) ==
    IF b = <<>> THEN FALSE
    ELSE IF a = <<>> THEN TRUE
    ELSE IF a[1] = b[1] THEN VecLess(Tail(a), Tail(b))
    ELSE StrLess(a[1], b[1])

RECURSIVE MaxFrom(_, _, _)
MaxFrom(vs, i, best) ==
    IF i > Len(vs) THEN best
    ELSE MaxFrom(vs, i + 1, IF VecLess(vs[i], best) THEN best ELSE vs[i])

\* Iterator::max of a non-empty sequence: the last of the greatest elements
Max(vs) == MaxFrom(vs, 2, vs[1])

Last(q) == q[Len(q)]

\* a FileMetadata::new whose extension is the piece after the first "."
FileMetadata_new_second_piece(name, s3_objects) ==
    LET is_file == ContainsChar(name, Dot)
    IN  [last_modified |-> IF s3_objects = <<>> THEN None ELSE s3_objects[1].last_modified,
         size |-> IF s3_objects = <<>> THEN None ELSE s3_objects[1].size,
         extension |-> IF is_file THEN Some(Split(name, Dot)[2]) ELSE None,
         file_type |-> IF is_file THEN "File" ELSE "Directory"]

FileMetadata_new(name, s3_objects) ==
    LET is_file == ContainsChar(name, Dot)
    IN  [last_modified |-> IF s3_objects = <<>> THEN None ELSE s3_objects[1].last_modified,
         size |-> IF s3_objects = <<>> THEN None ELSE s3_objects[1].size,
         extension |-> IF is_file THEN Some(Last(Split(name, Dot))) ELSE None,
         file_type |-> IF is_file THEN "File" ELSE "Directory"]

name_without_slash(name) == Replace(name, <<Slash>>, EmptyStr)

generate_file_id(file_name, parent) ==
    IF parent # None THEN parent[1] \o <<Slash>> \o file_name ELSE file_name

filter_objects_for_path(p, s3_objects) ==
    SelectSeq(s3_objects, LAMBDA object : EndsWith(object.key[1], p))

build_file(file_prefix, file_name, parent, s3_objects) ==
    [path |-> generate_file_id(file_name, parent),
     name |-> file_name,
     parent |-> parent,
     children |-> <<>>,
     prefix |-> file_prefix,
     metadata |-> FileMetadata_new(file_name, filter_objects_for_path(file_name, s3_objects))]

RECURSIVE FirstSome(_)
\* the first Some among a sequence of options, None when there is none
FirstSome(opts) ==
    IF opts = <<>> THEN None
    ELSE IF opts[1] # None THEN opts[1]
    ELSE FirstSome(Tail(opts))

RECURSIVE query(_, _)
\* query compares the node's name, not its path, with the id
query(self, id) ==
    IF self.name = id THEN Some(self)
    ELSE FirstSome([i \in 1..Len(self.children) |-> query(self.children[i], id)])

add_child(self, child) ==
    IF query(self, child.path) = None
    THEN [self EXCEPT !.children = Append(@, child)]
    ELSE self

RECURSIVE add_children(_, _)
add_children(self, children) ==
    IF children = <<>> THEN self
    ELSE add_children(add_child(self, children[1]), Tail(children))

RECURSIVE leaf_child(_)
\* only the first child is searched: .map(..).next()
leaf_child(self) ==
    IF self.path = self.prefix THEN Some(self)
    ELSE IF self.children = <<>> THEN None
    ELSE leaf_child(self.children[1])

\* longest_path: None when a common prefix has no prefix (path.unwrap() panics)
longest_path(name, s3_objects, file_prefix, cps) ==
    LET all_paths == [i \in 1..Len(cps) |-> cps[i].prefix] \o <<Some(file_prefix)>>
                        \o [i \in 1..Len(s3_objects) |-> s3_objects[i].key]
        keep(o) == o # EmptyStr /\ o # name_without_slash(name)
    IN  IF \E i \in 1..Len(all_paths) : all_paths[i] = None THEN Panic
        ELSE Ret(Max([i \in 1..Len(all_paths) |->
                         SelectSeq(Split(all_paths[i][1], Slash), keep)]))

RECURSIVE new_loop(_, _, _, _, _)
\* the for loop of File::new from position index of other_paths on
new_loop(first_child, other_paths, index, file_prefix, s3_objects) ==
    IF index > Len(other_paths) THEN first_child
    ELSE LET current_child == build_file(file_prefix, other_paths[index],
                                         Some(first_child.path), s3_objects)
             with_next == IF index + 1 > Len(other_paths) THEN current_child
                          ELSE add_child(current_child,
                                         build_file(file_prefix, other_paths[index + 1],
                                                    Some(current_child.path), s3_objects))
         IN  new_loop(add_child(first_child, with_next), other_paths, index + 1,
                      file_prefix, s3_objects)

File_new(name, s3_objects, file_prefix, cps) ==
    LET valid_s3_objects ==
            SelectSeq(s3_objects, LAMBDA object : object.key # None /\ object.key # Some(name))
        longest == longest_path(name, valid_s3_objects, file_prefix, cps)
    IN  IF longest.aborted THEN Panic
        ELSE IF longest.value = <<>> THEN Panic         \* longest_path[0] out of bounds
        ELSE LET root_directory == build_file(file_prefix, name_without_slash(name), None,
                                              valid_s3_objects)
                 first_child == build_file(file_prefix, longest.value[1],
                                           Some(root_directory.path), valid_s3_objects)
                 other_paths == Tail(longest.value)
             IN  Ret(add_children(root_directory,
                                  <<new_loop(first_child, other_paths, 1, file_prefix,
                                             valid_s3_objects)>>))

\* File::is_dir: leaf_child().unwrap() panics when there is no leaf
File_is_dir(self) ==
    IF leaf_child(self) = None THEN Panic
    ELSE Ret(leaf_child(self)[1].metadata.file_type = "Directory")

----------------------------------------------------------------------------
(* The listings File::new is applied to *)

MaxObjects == 2
MaxCommonPrefixes == 1

Name_dir == <<"d", "i", "r">>
Name_dir_slash == <<"d", "i", "r", "/">>
Prefix_root_dir == <<"r", "o", "o", "t", "/", "d", "i", "r", "/">>
Prefix_dir == <<"d", "i", "r">>
Prefix_dir_slash == <<"d", "i", "r", "/">>
Prefix_dir_root == <<"d", "i", "r", "/", "r", "o", "o", "t">>
Prefix_dir_sub_b == <<"d", "i", "r", "/", "s", "u", "b", "/", "b">>
Key_sub_zab == <<"s", "u", "b", "/", "z", "/", "b">>

Key_targz == <<"a", ".", "t", "a", "r", ".", "g", "z">>

Obj_zab == Object(Some(Key_sub_zab), None, Some(Date_1))
Obj_targz == Object(Some(Key_targz), Some(44), Some(Date_2))

Names == {Name_dir, Name_dir_slash}

Prefixes == {EmptyStr, Prefix_dir, Prefix_dir_slash, Prefix_root_dir, Prefix_dir_root,
             Prefix_dir_sub_b}

ObjectPool == {Obj_file1, Obj_file2, Obj_dir, Obj_sub3, Obj_nokey, Obj_zab, Obj_targz}

CommonPrefixPool == {CommonPrefix(Some(Prefix_sub)), CommonPrefix(None)}

\* the sequences of at most n different elements of S
SeqsOf(S, n) ==
    UNION {{q \in [1..k -> S] : \A i, j \in 1..k : i # j => q[i] # q[j]} : k \in 0..n}

FileInit ==
    /\ listing \in [name : Names, objects : SeqsOf(ObjectPool, MaxObjects), prefix : Prefixes,
                   common_prefixes : SeqsOf(CommonPrefixPool, MaxCommonPrefixes)]
    /\ file = NotCalled
    /\ BucketIdle
    /\ ErrorIdle
    /\ ListIdle
    /\ PathIdle
    /\ FsIdle

FileNew ==
    /\ file = NotCalled
    /\ file' = File_new(listing.name, listing.objects, listing.prefix, listing.common_prefixes)
    /\ UNCHANGED <<listing, bucket_vars, error_vars, list_vars, path_vars, fs_vars>>

FileNext == FileNew

SpecFile == FileInit /\ [][FileNext]_vars

----------------------------------------------------------------------------
(* Claims about File::new *)

FileCalled == file \notin {NotCalled, Unused}

Built == FileCalled /\ ~file.aborted

RECURSIVE Nodes(_)
RECURSIVE NodesOfAll(_)
\* every node of a tree, the root first
Nodes(node) == <<node>> \o NodesOfAll(node.children)
NodesOfAll(children) ==
    IF children = <<>> THEN <<>>
    ELSE Nodes(children[1]) \o NodesOfAll(Tail(children))

Id_file2 == <<"r", "o", "o", "t", "/", "d", "i", "r", "/", "s", "u", "b", "/", "f", "i", "l", "e", "2", ".", "p", "n", "g">>

EndToEndListing ==
    [name |-> Name_dir, objects |-> <<Obj_file1, Obj_file2>>, prefix |-> Prefix_root_dir,
     common_prefixes |-> <<CommonPrefix(Some(Prefix_sub))>>]

\* C1: for the listing "root/dir/file1.txt", "root/dir/sub/file2.png" with common
\* prefix "root/dir/sub/", origin name "dir" and base prefix "root/dir/", the tree
\* has a leaf, a Directory, and a node "root/dir/sub/file2.png", a File with
\* extension "png".
C1_EndToEnd ==
    (FileCalled /\ listing = EndToEndListing) =>
        /\ ~file.aborted
        /\ leaf_child(file.value) # None
        /\ leaf_child(file.value)[1].metadata.file_type = "Directory"
        /\ \E i \in 1..Len(Nodes(file.value)) :
              /\ Nodes(file.value)[i].path = Id_file2
              /\ Nodes(file.value)[i].metadata.file_type = "File"
              /\ Nodes(file.value)[i].metadata.extension = Some(<<"p", "n", "g">>)

\* C2: in every tree File::new returns, exactly one node has the origin prefix as
\* its id, and leaf_child of the root is that node.
C2_OneLeaf ==
    Built =>
        LET nodes == Nodes(file.value)
            leaves == {i \in 1..Len(nodes) : nodes[i].path = file.value.prefix}
        IN  /\ Cardinality(leaves) = 1
            /\ \A i \in leaves : leaf_child(file.value) = Some(nodes[i])

\* C3: in every tree File::new returns, no two nodes have the same id.
C3_UniqueIds ==
    Built =>
        LET nodes == Nodes(file.value)
        IN  \A i, j \in 1..Len(nodes) : nodes[i].path = nodes[j].path => i = j

\* C4: File::new returns a tree, without aborting, for every listing.
C4_NewTotal == FileCalled => ~file.aborted

\* the deepest path File::new chains: longest_path of its valid objects
DeepestPath ==
    longest_path(listing.name,
                 SelectSeq(listing.objects,
                           LAMBDA object : object.key # None /\ object.key # Some(listing.name)),
                 listing.prefix, listing.common_prefixes).value

RECURSIVE IsChain(_, _)
\* children is the chain of the segments: one child named after the first, the
\* rest below it, nothing below the last
IsChain(children, segments) ==
    IF segments = <<>> THEN children = <<>>
    ELSE /\ Len(children) = 1
         /\ children[1].name = segments[1]
         /\ IsChain(children[1].children, Tail(segments))

\* C15: the tree File::new returns for a deepest path s1..sn is a single chain
\* below the root: the root has the one child s1, s_i the one child s_(i+1), s_n
\* no child, and the tree has n + 1 nodes.
C15_SingleChain ==
    Built =>
        /\ IsChain(file.value.children, DeepestPath)
        /\ Len(Nodes(file.value)) = Len(DeepestPath) + 1

\* the substring of a name after its last "."
AfterLastDot(name) ==
    LET last == CHOOSE k \in 1..Len(name) :
                    name[k] = Dot /\ \A j \in (k + 1)..Len(name) : name[j] # Dot
    IN  SubSeq(name, last + 1, Len(name))

\* C16: a node of a tree File::new returns is a File exactly when its name
\* contains ".", and its extension is then what follows the last "." of the name;
\* any other node is a Directory without an extension.
C16_KindByName ==
    Built =>
        \A i \in 1..Len(Nodes(file.value)) :
            LET node == Nodes(file.value)[i]
            IN  IF \E k \in 1..Len(node.name) : node.name[k] = Dot
                THEN /\ node.metadata.file_type = "File"
                     /\ node.metadata.extension = Some(AfterLastDot(node.name))
                ELSE /\ node.metadata.file_type = "Directory"
                     /\ node.metadata.extension = None

\* a tree with a Directory above the File "a.tar.gz", whose extension is "gz"
C16_Witness ==
    /\ Built
    /\ file.value.metadata.file_type = "Directory"
    /\ \E i \in 1..Len(Nodes(file.value)) :
          /\ Nodes(file.value)[i].name = Key_targz
          /\ Nodes(file.value)[i].metadata.file_type = "File"
          /\ Nodes(file.value)[i].metadata.extension = Some(<<"g", "z">>)

----------------------------------------------------------------------------
(* s3.rs: S3Path.  A constructor or a call that lists takes several steps: it   *)
(* starts list_objects, the loop takes its turns, the rest runs once it is over *)

MaxCalls == 2

\* the outcome of HeadObject for the service's bucket and key: object_exists
object_exists(head_object) == [is_ok |-> head_object]

\* the existence probe of the eager constructor: an existence check of the path
eager_loading_object_exists(head_object) == [is_ok |-> head_object]

\* Path::is_relative, for a path written with "/"
is_relative(p) == p = EmptyStr \/ p[1] # Slash

\* Path::starts_with("s3://") compares components: the base has the one "s3:"
starts_with_s3(p) == Split(p, Slash)[1] = <<"s", "3", ":">>

validate_path(p) == IF ~starts_with_s3(p) /\ is_relative(p) THEN Panic ELSE Ret(p)

\* splitn(4, '/').last(): the fourth piece is the rest of the path
clean_path(p) ==
    LET pieces == Split(p, Slash)
    IN  IF MatchAt(p, S3Scheme, 1)
        THEN Ret(IF Len(pieces) <= 4 THEN Last(pieces)
                 ELSE Join(SubSeq(pieces, 4, Len(pieces)), <<Slash>>))
        ELSE IF is_relative(p) THEN Panic
        ELSE Ret(p)

\* format!("/{}/{}", bucket.name, bucket.key)
from_bucket_path(bucket) == <<Slash>> \o bucket.name \o <<Slash>> \o bucket.key

\* build_files once list_objects has returned listed
build_files(s3_service, listed) ==
    IF listed.is_ok
    THEN LET built == File_new(s3_service.bucket.key, listed.objects, listed.prefix,
                               listed.common_prefixes)
         IN  IF built.aborted THEN Panic ELSE Ret(Some(built.value))
    ELSE Ret(None)

\* an exists() that asks the backend whatever the mode
S3Path_exists_always_checks(self, head_object) ==
    [value |-> object_exists(head_object).is_ok, check |-> Some(head_object)]

\* exists(): its value, and the existence check it made, None without one
S3Path_exists(self, head_object) ==
    IF self.eager_loading THEN [value |-> TRUE, check |-> None]
    ELSE [value |-> object_exists(head_object).is_ok, check |-> Some(head_object)]

\* file.as_ref().unwrap().is_dir()
unwrap_is_dir(file_option) ==
    IF file_option = None THEN Panic ELSE File_is_dir(file_option[1])

\* is_file(): !self.is_dir()
S3Path_is_file(is_dir) == IF is_dir.aborted THEN Panic ELSE Ret(~is_dir.value)

\* what the call op returns when is_dir() yields is_dir
ResultOf(op, is_dir) == IF op = "is_file" THEN S3Path_is_file(is_dir) ELSE is_dir

\* the paths and the listings an S3Path is made for
Path_relative == Seg_b \o <<Slash>> \o Key_dir

PathPaths == ListPaths \cup {<<Slash>> \o Seg_b \o <<Slash>> \o Key_dir, Path_relative}

PathListings == {<<Page(Some(<<Obj_file1>>), None)>>,
                 <<Page(Some(<<Obj_file2>>), Some(<<CommonPrefix(Some(Prefix_sub))>>))>>,
                 <<Page(None, None)>>,
                 <<Page(Some(<<Obj_file1>>), None), Page(Some(<<Obj_file2>>), None)>>}

NoBucket == [name |-> EmptyStr, key |-> EmptyStr, full_path |-> None]

NoCall == [op |-> "none", check |-> None, result |-> Unused]

\* a constructor has been called, nothing of it has run
PathInit ==
    /\ ctor \in [fn : {"new", "from_s3_client"}, path : PathPaths, bucket : {NoBucket},
                 eager_loading : BOOLEAN]
                \cup [fn : {"from_bucket"}, path : {EmptyStr},
                      bucket : {from_path(p).value : p \in ListPaths},
                      eager_loading : BOOLEAN]
    /\ s3_pages \in PathListings
    /\ service = [bucket |-> NoBucket]
    /\ list_object_input = [bucket |-> EmptyStr, continuation_token |-> None, prefix |-> None]
    /\ objects = <<>>
    /\ common_prefixes = <<>>
    /\ prefix = EmptyStr
    /\ requests = <<>>
    /\ list_pc = "idle"
    /\ list_out = None
    /\ s3path = [path |-> EmptyStr, file |-> None, eager_loading |-> FALSE]
    /\ path_pc = "start"
    /\ probe = None
    /\ heads = 0
    /\ calls = 0
    /\ last_call = NoCall
    /\ BucketIdle
    /\ ErrorIdle
    /\ FileIdle
    /\ FsIdle

list_locals == <<list_object_input, objects, common_prefixes, prefix, list_pc, list_out>>

\* list_objects up to its loop, for the service's bucket
ListStart(bucket) ==
    /\ list_object_input' = ListObjectsV2Request(bucket.name, None, Some(bucket.key))
    /\ objects' = <<>>
    /\ common_prefixes' = <<>>
    /\ prefix' = EmptyStr
    /\ list_pc' = "loop"
    /\ list_out' = None

\* the end of a constructor: the path is cleaned, the S3Path returned
Constructed(cleaned, file_option) ==
    IF cleaned.aborted
    THEN /\ path_pc' = "panicked"
         /\ UNCHANGED s3path
    ELSE /\ path_pc' = "ready"
         /\ s3path' = [path |-> cleaned.value, file |-> file_option,
                       eager_loading |-> ctor.eager_loading]

\* new(path, eager_loading) up to build_files' listing, or to its end without one
New(p) ==
    LET bucket == from_path(p)
    IN  IF bucket.aborted
        THEN /\ path_pc' = "panicked"
             /\ UNCHANGED <<s3path, probe, heads, service, list_locals>>
        ELSE /\ service' = [bucket |-> bucket.value]
             /\ IF ctor.eager_loading
                THEN \E head_object \in BOOLEAN :
                        /\ heads' = heads + 1
                        /\ probe' = Some(head_object)
                        /\ IF eager_loading_object_exists(head_object).is_ok
                           THEN /\ ListStart(bucket.value)
                                /\ path_pc' = "new:build_files"
                                /\ UNCHANGED s3path
                           ELSE /\ Constructed(clean_path(p), None)
                                /\ UNCHANGED list_locals
                ELSE /\ Constructed(clean_path(p), None)
                     /\ UNCHANGED <<probe, heads, list_locals>>

S3PathNew ==
    /\ path_pc = "start"
    /\ ctor.fn = "new"
    /\ New(ctor.path)
    /\ UNCHANGED <<ctor, calls, last_call, s3_pages, requests, bucket_vars, error_vars,
                   file_vars, fs_vars>>

\* from_bucket(bucket, lazy_loading): new(&path, lazy_loading)
S3PathFromBucket ==
    /\ path_pc = "start"
    /\ ctor.fn = "from_bucket"
    /\ New(from_bucket_path(ctor.bucket))
    /\ UNCHANGED <<ctor, calls, last_call, s3_pages, requests, bucket_vars, error_vars,
                   file_vars, fs_vars>>

\* from_s3_client(s3_client, path, eager_loading): no probe before build_files
S3PathFromS3Client ==
    /\ path_pc = "start"
    /\ ctor.fn = "from_s3_client"
    /\ LET bucket == from_path(ctor.path)
       IN  IF bucket.aborted
           THEN /\ path_pc' = "panicked"
                /\ UNCHANGED <<s3path, service, list_locals>>
           ELSE /\ service' = [bucket |-> bucket.value]
                /\ IF ctor.eager_loading
                   THEN /\ ListStart(bucket.value)
                        /\ path_pc' = "from_s3_client:build_files"
                        /\ UNCHANGED s3path
                   ELSE /\ Constructed(validate_path(ctor.path), None)
                        /\ UNCHANGED list_locals
    /\ UNCHANGED <<ctor, probe, heads, calls, last_call, s3_pages, requests, bucket_vars,
                   error_vars, file_vars, fs_vars>>

\* the rest of a constructor once list_objects is over
S3PathBuilt ==
    /\ path_pc \in {"new:build_files", "from_s3_client:build_files"}
    /\ list_pc \in {"returned", "panicked"}
    /\ LET built == IF list_pc = "panicked" THEN Panic
                    ELSE build_files(service, list_out[1])
           cleaned == IF ctor.fn = "from_s3_client" THEN validate_path(ctor.path)
                      ELSE IF ctor.fn = "from_bucket"
                           THEN clean_path(from_bucket_path(ctor.bucket))
                      ELSE clean_path(ctor.path)
       IN  IF built.aborted
           THEN /\ path_pc' = "panicked"
                /\ UNCHANGED s3path
           ELSE Constructed(cleaned, built.value)
    /\ UNCHANGED <<ctor, probe, heads, calls, last_call, list_vars, bucket_vars, error_vars,
                   file_vars, fs_vars>>

\* exists()
Exists ==
    /\ path_pc = "ready"
    /\ calls < MaxCalls
    /\ calls' = calls + 1
    /\ \E head_object \in BOOLEAN :
          LET exists == S3Path_exists(s3path, head_object)
          IN  /\ heads' = heads + Len(exists.check)
              /\ last_call' = [op |-> "exists", check |-> exists.check,
                               result |-> Ret(exists.value)]
    /\ UNCHANGED <<ctor, s3path, path_pc, probe, list_vars, bucket_vars, error_vars,
                   file_vars, fs_vars>>

\* is_dir(), and is_file() around it, up to build_files' listing or to the end
\* without one
IsDirCall(op) ==
    /\ calls < MaxCalls
    /\ calls' = calls + 1
    /\ IF s3path.eager_loading
       THEN LET result == ResultOf(op, unwrap_is_dir(s3path.file))
            IN  /\ last_call' = [op |-> op, check |-> None, result |-> result]
                /\ path_pc' = IF result.aborted THEN "panicked" ELSE "ready"
                /\ UNCHANGED <<heads, list_locals>>
       ELSE \E head_object \in BOOLEAN :
               LET exists == S3Path_exists(s3path, head_object)
               IN  /\ heads' = heads + Len(exists.check)
                   /\ IF exists.value
                      THEN /\ ListStart(service.bucket)
                           /\ path_pc' = IF op = "is_file" THEN "is_file:build_files"
                                         ELSE "is_dir:build_files"
                           /\ last_call' = [op |-> op, check |-> exists.check,
                                            result |-> NotCalled]
                      ELSE /\ last_call' = [op |-> op, check |-> exists.check,
                                            result |-> ResultOf(op, Ret(FALSE))]
                           /\ UNCHANGED <<path_pc, list_locals>>
    /\ UNCHANGED <<ctor, s3path, probe, s3_pages, service, requests, bucket_vars,
                   error_vars, file_vars, fs_vars>>

IsDir ==
    /\ path_pc = "ready"
    /\ IsDirCall("is_dir")

IsFile ==
    /\ path_pc = "ready"
    /\ IsDirCall("is_file")

\* the rest of a lazy is_dir() or is_file() once list_objects is over
IsDirBuilt ==
    /\ path_pc \in {"is_dir:build_files", "is_file:build_files"}
    /\ list_pc \in {"returned", "panicked"}
    /\ LET built == IF list_pc = "panicked" THEN Panic
                    ELSE build_files(service, list_out[1])
           result == ResultOf(last_call.op,
                              IF built.aborted THEN Panic ELSE unwrap_is_dir(built.value))
       IN  /\ last_call' = [last_call EXCEPT !.result = result]
           /\ path_pc' = IF result.aborted THEN "panicked" ELSE "ready"
    /\ UNCHANGED <<ctor, s3path, probe, heads, calls, list_vars, bucket_vars, error_vars,
                   file_vars, fs_vars>>

PathNext ==
    \/ S3PathNew
    \/ S3PathFromBucket
    \/ S3PathFromS3Client
    \/ S3PathBuilt
    \/ ListPage
    \/ ListPageFails
    \/ Exists
    \/ IsDir
    \/ IsFile
    \/ IsDirBuilt

SpecPath == PathInit /\ [][PathNext]_vars

----------------------------------------------------------------------------
(* Claims about S3Path *)

\* the S3Path has been returned by its constructor
IsConstructed == path_pc \notin {"idle", "start", "new:build_files", "from_s3_client:build_files"}
                 /\ (path_pc = "panicked" => calls > 0)

\* the call op has returned or aborted
Done(op) == last_call.op = op /\ last_call.result # NotCalled

Lazy == IsConstructed /\ ~s3path.eager_loading

Eager == IsConstructed /\ s3path.eager_loading

\* C11: a lazy S3Path whose existence check fails answers false to is_dir() and
\* false to is_file().
C11_LazyMissing ==
    \A op \in {"is_dir", "is_file"} :
        (Lazy /\ Done(op) /\ last_call.check = Some(FALSE)) => last_call.result = Ret(FALSE)

\* C12: once an eager S3Path is constructed, no call of exists(), is_dir() or
\* is_file() sends a request to the backend or changes the retained tree.
C12_EagerFrame ==
    [][(Eager /\ path_pc = "ready") =>
           /\ heads' = heads
           /\ requests' = requests
           /\ puts' = puts
           /\ s3path' = s3path]_vars

\* an eager S3Path with a tree, after a probe and a listing, has answered two
\* calls, the last of them is_dir()
C12_Witness ==
    /\ Eager
    /\ s3path.file # None
    /\ heads = 1
    /\ requests # <<>>
    /\ calls >= 2
    /\ Done("is_dir")
    /\ ~last_call.result.aborted

\* C13: an eager constructor sends a list request only after its existence probe
\* has succeeded; when the probe fails it sends none and retains no tree.
C13_ProbeBeforeListing ==
    (path_pc # "idle" /\ ctor.eager_loading) =>
        /\ requests # <<>> => probe = Some(TRUE)
        /\ probe = Some(FALSE) => (requests = <<>> /\ s3path.file = None)

\* C17: exists() returns true only if an existence check of the path has
\* succeeded: the constructor's probe for an eager S3Path, the check made during
\* the call for a lazy one.
C17_ExistsOnlyIfChecked ==
    (IsConstructed /\ Done("exists") /\ last_call.result = Ret(TRUE)) =>
        IF s3path.eager_loading THEN probe = Some(TRUE)
        ELSE last_call.check = Some(TRUE)

\* C18: is_dir() returns a boolean, without aborting, on every S3Path: an eager
\* one without a tree, a lazy one whose listing fails after the existence check
\* succeeded, one whose tree has no node with the origin prefix as its id.
C18_IsDirTotal ==
    (IsConstructed /\ Done("is_dir")) => ~last_call.result.aborted

----------------------------------------------------------------------------
(* fs.rs: create_dir_all *)

MaxDirs == 3

DirNames == {Seg_k, Key_dir}

DirSeqs == UNION {[1..n -> DirNames] : n \in 1..MaxDirs}

\* the path of the directory d1/../dn of a container, with its trailing "/"
DirPath(d) == d.scheme \o d.container \o <<Slash>> \o Join(d.dirs, <<Slash>>) \o <<Slash>>

\* the key of the directory d1/../di
DirKey(dirs, i) == Join(SubSeq(dirs, 1, i), <<Slash>>) \o <<Slash>>

\* the answers of the backend to a put request
PutResults == {[is_ok |-> TRUE]} \cup {[is_ok |-> FALSE, error |-> e] : e \in ListFailures}

FsInit ==
    /\ dir_in \in [scheme : Schemes, container : {Seg_b}, dirs : DirSeqs]
    /\ store \in SUBSET {DirKey(dir_in.dirs, i) : i \in 1..(Len(dir_in.dirs) - 1)}
    /\ puts = <<>>
    /\ fs_out = NotCalled
    /\ BucketIdle
    /\ ErrorIdle
    /\ ListIdle
    /\ FileIdle
    /\ PathIdle

\* FS::from_string: S3Path::new(path), no listing asked for
FS_from_string(p) ==
    LET bucket == from_path(p)
        cleaned == clean_path(p)
    IN  IF bucket.aborted \/ cleaned.aborted THEN Panic
        ELSE Ret([path |-> cleaned.value, service |-> [bucket |-> bucket.value]])

write_to_object(put_object) ==
    IF put_object.is_ok THEN Ret([is_ok |-> TRUE])
    ELSE LET error == process_error(Some(put_object.error), None, "PutObject")
         IN  IF error.aborted THEN Panic ELSE Ret([is_ok |-> FALSE, error |-> error.value])

\* FS::create_dir: one put, of the key of the service's bucket
FS_create_dir(self, put_object) ==
    LET written == write_to_object(put_object)
    IN  IF written.aborted THEN Panic
        ELSE IF written.value.is_ok THEN Ret([is_ok |-> TRUE, value |-> self.path])
        ELSE written

\* create_dir_all(path): FS::from_string(path).create_dir()
CreateDirAll ==
    /\ fs_out = NotCalled
    /\ LET fs == FS_from_string(DirPath(dir_in))
       IN  IF fs.aborted
           THEN /\ fs_out' = Panic
                /\ UNCHANGED <<store, puts>>
           ELSE \E put_object \in PutResults :
                   /\ puts' = Append(puts, fs.value.service.bucket.key)
                   /\ store' = IF put_object.is_ok
                               THEN store \cup {fs.value.service.bucket.key} ELSE store
                   /\ fs_out' = FS_create_dir(fs.value, put_object)
    /\ UNCHANGED <<dir_in, bucket_vars, error_vars, list_vars, file_vars, path_vars>>

FsNext == CreateDirAll

SpecFs == FsInit /\ [][FsNext]_vars

----------------------------------------------------------------------------
(* Claims about create_dir_all *)

ReturnedOk == fs_out \notin {NotCalled, Unused} /\ ~fs_out.aborted /\ fs_out.value.is_ok

\* C14: after create_dir_all returns Ok for the directory d1/../dn of a container,
\* a put has been sent for d1/../dn, and d1/../di exists in the backend for every
\* i <= n: the missing ancestors have been put too.
C14_AllCreated ==
    ReturnedOk =>
        LET dirs == dir_in.dirs
        IN  /\ \E k \in 1..Len(puts) : puts[k] = DirKey(dirs, Len(dirs))
            /\ \A i \in 1..Len(dirs) : DirKey(dirs, i) \in store

----------------------------------------------------------------------------
(* The parts together: one of them is set up, the others are unused *)

Init == BucketInit \/ ErrorInit \/ ListInit \/ FileInit \/ PathInit \/ FsInit

Next == BucketNext \/ ErrorNext \/ ListNext \/ FileNext \/ PathNext \/ FsNext

Spec == Init /\ [][Next]_vars

====
